---- MODULE Spec2Model ----
(***************************************************************************)
(* A model of tito's common operations (src/tito/common.py): the command   *)
(* runner, the tag checks, the tag/metadata parsers and the archive        *)
(* builder.                                                                *)
(*                                                                         *)
(* Text is modelled as a sequence of one-character strings, so that        *)
(* matching, splitting and stripping are computed character by character. *)
(* The replies of the external programs (git, grep, awk, gzip, tee) are    *)
(* inputs of a call: they are drawn from small sets.                       *)
(***************************************************************************)
EXTENDS Integers, Sequences, FiniteSets, TLC

VARIABLES
    pc,           \* "call": a call is about to run; "done": it has run; "idle"
    op,           \* the function called
    input,        \* its arguments and the replies of the environment
    outcome,      \* "none", "return", "exit" (sys.exit), "raise" (Exception),
                  \* "index" (IndexError)
    exit_status,  \* the process exit status when outcome = "exit"
    retval,       \* the value returned to the caller
    stdout,       \* the lines printed
    stderr,       \* the lines written to sys.stderr
    cmds,         \* the shell commands executed, in order
    dest,         \* the destination tarball of create_tgz
    prev,         \* the previous create_tgz run: its arguments and its tarball
    now,          \* the time of the run: the number of create_tgz runs so far
    cwd           \* the working directory of the process

vars == <<pc, op, input, outcome, exit_status, retval, stdout, stderr, cmds,
          dest, prev, now, cwd>>

---------------------------------------------------------------------------
(* Bounds *)
MaxStatus == 2        \* exit statuses 0..MaxStatus
MaxOutputLen == 2     \* length of a captured output in run_command
MaxTagLen == 3        \* length of a tag name in check_tag_exists
MaxTags == 2          \* number of tags in the local repository
MaxNameLen == 5       \* length of a tag in get_project_name
MaxCountTagLen == 3   \* length of a tag in get_commit_count
MaxDescribeLen == 5   \* length of a git-describe output
MaxMetaLen == 4       \* length of a package metadata line
MaxFileLen == 4       \* length of a package metadata file
MaxRuns == 2          \* number of create_tgz runs
MaxFailures == 1      \* number of pipeline stages that fail in one run

---------------------------------------------------------------------------
(* Text *)
StrsUpTo(A, n) == UNION {[1..k -> A] : k \in 0..n}
StrsFromTo(A, m, n) == UNION {[1..k -> A] : k \in m..n}

\* s[i..]: the text from position i on
Drop(s, i) == SubSeq(s, i, Len(s))

\* Values a function hands back to its caller.
Nothing == [kind |-> "nothing", int |-> 0, str |-> <<>>]
NoneVal == [kind |-> "None", int |-> 0, str |-> <<>>]
IntVal(n) == [kind |-> "int", int |-> n, str |-> <<>>]
StrVal(s) == [kind |-> "str", int |-> 0, str |-> s]

\* A shell command: its format string and the values substituted into it.
Cmd(template, args) == [template |-> template, args |-> args]

\* A printed line: what it says and the values it names.
Msg(kind, args) == [kind |-> kind, args |-> args]

\* The result of a call.
Result(o, st, rv, out, err, cs) ==
    [outcome |-> o, exit_status |-> st, retval |-> rv, stdout |-> out,
     stderr |-> err, cmds |-> cs]

\* The call's result becomes the state.
Finish(r) ==
    /\ outcome' = r.outcome
    /\ exit_status' = r.exit_status
    /\ retval' = r.retval
    /\ stdout' = r.stdout
    /\ stderr' = r.stderr
    /\ cmds' = r.cmds
    /\ pc' = "done"
    /\ UNCHANGED <<op, input, dest, prev, now, cwd>>

---------------------------------------------------------------------------
(* debug: prints the line when DEBUG is in os.environ *)
debug(line, DEBUG) == IF DEBUG THEN <<line>> ELSE <<>>

---------------------------------------------------------------------------
(* error_out *)
error_out(error_msgs, err, cs) ==
    Result("exit", 1, Nothing, error_msgs, err, cs)

---------------------------------------------------------------------------
(* run_command *)
Commands == {Cmd("git describe %s", <<>>), Cmd("git config remote.origin.url", <<>>)}
Outputs == StrsUpTo({"x", "y"}, MaxOutputLen)

\* The four lines written to sys.stderr when a command fails.
Diagnostic(command, status, output) ==
    << [label |-> "banner", command |-> Cmd("", <<>>), status |-> 0, output |-> <<>>],
       [label |-> "Error running command", command |-> command, status |-> 0, output |-> <<>>],
       [label |-> "Status code", command |-> Cmd("", <<>>), status |-> status, output |-> <<>>],
       [label |-> "Command output", command |-> Cmd("", <<>>), status |-> 0, output |-> output] >>

\* A mutant: a status of 1 is taken for success.
run_command_lax(command, status, output) ==
    IF status > 1
    THEN Result("raise", 0, Nothing, <<>>, Diagnostic(command, status, output), <<command>>)
    ELSE Result("return", 0, StrVal(output), <<>>, <<>>, <<command>>)

\* (status, output) is what commands.getstatusoutput(command) gave.
run_command(command, status, output) ==
    IF status > 0
    THEN Result("raise", 0, Nothing, <<>>, Diagnostic(command, status, output), <<command>>)
    ELSE Result("return", 0, StrVal(output), <<>>, <<>>, <<command>>)

\* The status the shell reports for "a | b | c": that of the last command.
PipelineStatus(statuses) == statuses[Len(statuses)]

RunCommandInputs ==
    [command : Commands, status : 0..MaxStatus, output : Outputs]

RunCommand ==
    /\ pc = "call" /\ op = "run_command"
    /\ Finish(run_command(input.command, input.status, input.output))

---------------------------------------------------------------------------
(* check_tag_exists *)
TagAlphabet == {"a", "."}
TagNames == StrsFromTo(TagAlphabet, 1, MaxTagLen)
SHA_abc123 == <<"a", "b", "c", "1", "2", "3">>
SHA_def456 == <<"d", "e", "f", "4", "5", "6">>
Shas == {SHA_abc123, SHA_def456}
OriginUrl == <<"u">>

GrepCmd == "git tag | grep %s"
LsRemoteLocalCmd == "git ls-remote ./. --tag %s | awk '{ print $1 ; exit }'"
GitConfigCmd == "git config remote.origin.url"
LsRemoteCmd == "git ls-remote %s --tag %s | awk '{ print $1 ; exit }'"

\* grep's match of a pattern in a line: "." in the pattern matches any
\* character, any other character matches itself, anywhere in the line.
GrepMatches(pattern, line) ==
    \E off \in 0..(Len(line) - Len(pattern)) :
        \A i \in 1..Len(pattern) :
            pattern[i] = "." \/ pattern[i] = line[off + i]

\* The status of "git tag | grep <tag>": grep's, 0 when a line is selected.
GitTagGrep(tag, local_tags) ==
    PipelineStatus(<<0, IF \E t \in local_tags : GrepMatches(tag, t) THEN 0 ELSE 1>>)

\* A mutant: a remote SHA1 that differs from the local one is accepted.
compare_sha1_nodiff(tag, tag_sha1, upstream_tag_sha1, DEBUG, cs) ==
    IF upstream_tag_sha1 = <<>>
    THEN error_out(<<Msg("Tag does not exist in remote git repo", <<tag>>),
                     Msg("You must tag, then git push and git push --tags", <<>>)>>,
                   <<>>, cs)
    ELSE Result("return", 0, NoneVal,
                debug(Msg("Remote tag SHA1", <<upstream_tag_sha1>>), DEBUG), <<>>, cs)

\* The comparison of the remote SHA1 with the local one.
compare_sha1(tag, tag_sha1, upstream_tag_sha1, DEBUG, cs) ==
    IF upstream_tag_sha1 = <<>>
    THEN error_out(<<Msg("Tag does not exist in remote git repo", <<tag>>),
                     Msg("You must tag, then git push and git push --tags", <<>>)>>,
                   <<>>, cs)
    ELSE IF upstream_tag_sha1 # tag_sha1
    THEN error_out(debug(Msg("Remote tag SHA1", <<upstream_tag_sha1>>), DEBUG)
                   \o <<Msg("Tag %s references %s locally but %s upstream",
                            <<tag, tag_sha1, upstream_tag_sha1>>)>>, <<>>, cs)
    ELSE Result("return", 0, NoneVal,
                debug(Msg("Remote tag SHA1", <<upstream_tag_sha1>>), DEBUG), <<>>, cs)

get_git_repo_url(status, url) ==
    run_command(Cmd(GitConfigCmd, <<>>), status, url)

\* The part of check_tag_exists that talks to the remote.
check_remote(tag, tag_sha1, env, cs) ==
    LET u == get_git_repo_url(IF env.origin THEN 0 ELSE 1,
                              IF env.origin THEN OriginUrl ELSE <<>>)
        cs1 == cs \o u.cmds
    IN IF u.outcome = "raise"
       THEN Result("raise", 0, Nothing, <<>>, u.stderr, cs1)
       ELSE LET repo_url == u.retval.str
                r == run_command(Cmd(LsRemoteCmd, <<repo_url, tag>>),
                                 PipelineStatus(<<0, 0>>), env.remote_sha)
                cs2 == cs1 \o r.cmds
                said == <<Msg("Checking for tag [%s] in git repo [%s]", <<tag, repo_url>>)>>
            IN IF r.outcome = "raise"
               THEN Result("raise", 0, Nothing, said, r.stderr, cs2)
               ELSE LET c == compare_sha1(tag, tag_sha1, r.retval.str, env.DEBUG, cs2)
                    IN [c EXCEPT !.stdout = said \o c.stdout]

\* A mutant: the offline flag is ignored.
after_local_sha1_online(tag, offline, tag_sha1, env, cs) ==
    check_remote(tag, tag_sha1, env, cs)

\* What check_tag_exists does once the local SHA1 is known.
after_local_sha1(tag, offline, tag_sha1, env, cs) ==
    IF offline
    THEN Result("return", 0, NoneVal, <<>>, <<>>, cs)
    ELSE check_remote(tag, tag_sha1, env, cs)

check_tag_exists(tag, offline, env) ==
    LET status == GitTagGrep(tag, env.local_tags)
        cs0 == <<Cmd(GrepCmd, <<tag>>)>>
    IN IF status > 0
       THEN error_out(<<Msg("Tag does not exist locally", <<tag>>)>>, <<>>, cs0)
       ELSE LET l == run_command(Cmd(LsRemoteLocalCmd, <<tag>>),
                                 PipelineStatus(<<0, 0>>), env.local_sha)
                cs1 == cs0 \o l.cmds
            IN IF l.outcome = "raise"
               THEN Result("raise", 0, Nothing, <<>>, l.stderr, cs1)
               ELSE LET said == debug(Msg("Local tag SHA1", <<l.retval.str>>), env.DEBUG)
                        a == after_local_sha1(tag, offline, l.retval.str, env, cs1)
                    IN [a EXCEPT !.stdout = said \o a.stdout]

\* The repositories a call can meet: the local tag list, the SHA1 the tag
\* resolves to locally (none unless the tag is in the list), whether an
\* origin URL is configured, and the SHA1 the origin lists for the tag.
\* The names git accepts for a tag: no "." at either end, no ".."
ValidRefName(t) ==
    /\ t[1] # "." /\ t[Len(t)] # "."
    /\ \A k \in 1..(Len(t) - 1) : ~(t[k] = "." /\ t[k + 1] = ".")
TagSets ==
    {S \in SUBSET {t \in TagNames : ValidRefName(t)} : Cardinality(S) <= MaxTags}
CheckTagInputs ==
    {i \in [tag : TagNames, offline : BOOLEAN, local_tags : TagSets,
            local_sha : Shas \cup {<<>>}, origin : BOOLEAN,
            remote_sha : Shas \cup {<<>>}, DEBUG : BOOLEAN] :
        /\ (i.local_sha = <<>>) <=> (i.tag \notin i.local_tags)
        /\ (~i.origin) => i.remote_sha = <<>>}

CheckTagExists ==
    /\ pc = "call" /\ op = "check_tag_exists"
    /\ Finish(check_tag_exists(input.tag, input.offline, input))

---------------------------------------------------------------------------
(* get_project_name *)
NameAlphabet == {"a", "-", "1"}
IsDigit(c) == c \in {"0", "1", "2", "3", "4", "5", "6", "7", "8", "9"}
\* "." of a regular expression: any character but a newline
IsDot(c) == c # "\n"

\* A mutant: the first group is greedy, it ends at the last "-digit".
RECURSIVE re_match_greedy(_, _)
re_match_greedy(tag, k) ==
    IF k + 2 > Len(tag) THEN -1
    ELSE IF ~IsDot(tag[k + 1]) THEN
        (IF tag[k + 1] = "-" /\ IsDigit(tag[k + 2]) THEN k ELSE -1)
    ELSE LET longer == re_match_greedy(tag, k + 1)
         IN IF longer >= 0 THEN longer
            ELSE IF tag[k + 1] = "-" /\ IsDigit(tag[k + 2]) THEN k ELSE -1

\* re.compile('(.*?)-(\d.*)').match(tag), with k characters tried for the
\* first group, the shortest first: the length of group 1, or -1 for no match.
RECURSIVE re_match(_, _)
re_match(tag, k) ==
    IF k + 2 > Len(tag) THEN -1
    ELSE IF tag[k + 1] = "-" /\ IsDigit(tag[k + 2]) THEN k
    ELSE IF IsDot(tag[k + 1]) THEN re_match(tag, k + 1)
    ELSE -1

\* The directory listings and rpm replies of the branch without a tag.
Listings == {<<>>, <<"README">>, <<"tito.spec">>, <<"README", "tito.spec">>}
EndsWithSpec(f) == f \in {"tito.spec"}

\* The first file of the listing that ends in ".spec", <<>> for none
find_spec_file(listing) ==
    LET S == {i \in 1..Len(listing) : EndsWithSpec(listing[i])}
    IN IF S = {} THEN <<>>
       ELSE <<listing[CHOOSE i \in S : \A j \in S : i <= j]>>

get_project_name(env) ==
    IF env.tag_given
    THEN LET m == re_match(env.tag, 0)
         IN IF m < 0
            THEN error_out(<<Msg("Unable to determine project name in tag", <<env.tag>>)>>,
                           <<>>, <<>>)
            ELSE Result("return", 0, StrVal(SubSeq(env.tag, 1, m)), <<>>, <<>>, <<>>)
    ELSE LET f == find_spec_file(env.listing)
         IN IF f = <<>>
            THEN error_out(<<Msg("Unable to locate a spec file in", <<>>)>>, <<>>, <<>>)
            ELSE IF ~env.spec_exists
            THEN error_out(<<Msg("Unable to get project name from spec file", <<>>)>>,
                           <<>>, <<>>)
            ELSE run_command(Cmd("rpm -q --qf '%%{name}\n' --specfile %s 2> /dev/null | head -1",
                                 <<>>),
                             PipelineStatus(<<env.rpm_status, 0>>), env.rpm_output)

ProjectNameInputs ==
    [tag_given : {TRUE}, tag : StrsUpTo(NameAlphabet, MaxNameLen),
     listing : {<<>>}, spec_exists : {TRUE}, rpm_status : {0}, rpm_output : {<<>>}]
    \cup
    [tag_given : {FALSE}, tag : {<<>>},
     listing : Listings, spec_exists : BOOLEAN, rpm_status : 0..1,
     rpm_output : {<<>>, <<"a">>}]

GetProjectName ==
    /\ pc = "call" /\ op = "get_project_name"
    /\ Finish(get_project_name(input))

---------------------------------------------------------------------------
(* get_commit_count *)
\* The positions of sep in s
Positions(s, sep) == {i \in 1..Len(s) : s[i] = sep}
Least(S) == CHOOSE i \in S : \A j \in S : i <= j

\* s.split(sep) for a one-character sep
RECURSIVE Split(_, _)
Split(s, sep) ==
    IF Positions(s, sep) = {} THEN <<s>>
    ELSE LET i == Least(Positions(s, sep))
         IN <<SubSeq(s, 1, i - 1)>> \o Split(Drop(s, i + 1), sep)

\* A mutant: the last field is taken.
last_field(fields) == Len(fields)

\* The index that [-2] names in a list
penultimate(fields) == Len(fields) - 1

get_commit_count(tag, env) ==
    LET r == run_command(Cmd("git describe %s", <<env.commit_id>>),
                         env.status, env.output)
    IN IF r.outcome = "raise" THEN r
       ELSE LET output == r.retval.str
                said == debug(Msg("tag - %s", <<tag>>), env.DEBUG)
                        \o debug(Msg("output - %s", <<output>>), env.DEBUG)
            IN IF tag # output
               THEN LET fields == Split(output, "-")
                        i == penultimate(fields)
                    IN IF i \in 1..Len(fields)
                       THEN Result("return", 0, StrVal(fields[i]), said, <<>>, r.cmds)
                       ELSE Result("index", 0, Nothing, said, <<>>, r.cmds)
               ELSE Result("return", 0, IntVal(0), said, <<>>, r.cmds)

CommitCountInputs ==
    [tag : StrsFromTo(NameAlphabet, 1, MaxCountTagLen), commit_id : {<<"c">>},
     status : {0}, output : StrsFromTo(NameAlphabet, 1, MaxDescribeLen),
     DEBUG : BOOLEAN]
    \cup
    [tag : StrsFromTo(NameAlphabet, 1, MaxCountTagLen), commit_id : {<<"c">>},
     status : {128}, output : {<<"f">>}, DEBUG : BOOLEAN]

GetCommitCount ==
    /\ pc = "call" /\ op = "get_commit_count"
    /\ Finish(get_commit_count(input.tag, input))

---------------------------------------------------------------------------
(* get_relative_project_dir *)
MetaAlphabet == {"a", "b", " ", "\t"}
\* The characters str.strip() removes
PyWhitespace == {" ", "\t", "\n", "\r"}

\* s.strip()
RECURSIVE LStrip(_)
LStrip(s) ==
    IF s # <<>> /\ s[1] \in PyWhitespace THEN LStrip(Tail(s)) ELSE s
RECURSIVE RStrip(_)
RStrip(s) ==
    IF s # <<>> /\ s[Len(s)] \in PyWhitespace THEN RStrip(SubSeq(s, 1, Len(s) - 1)) ELSE s
Strip(s) == LStrip(RStrip(s))

get_relative_project_dir(project_name, commit, env) ==
    LET r == run_command(Cmd("git show %s:rel-eng/packages/%s", <<commit, project_name>>),
                         env.status, env.at_commit)
    IN IF r.outcome = "raise" THEN r
       ELSE LET pkg_metadata == Strip(r.retval.str)
                tokens == Split(pkg_metadata, " ")
                said == debug(Msg("Got package metadata: %s", tokens), env.DEBUG)
            IN IF Len(tokens) >= 2
               THEN Result("return", 0, StrVal(tokens[2]), said, <<>>, r.cmds)
               ELSE Result("index", 0, Nothing, said, <<>>, r.cmds)

\* at_commit: the metadata line stored at the commit; worktree: the line in
\* the working tree.
RelativeDirInputs ==
    [project_name : {<<"p">>}, commit : {<<"c">>}, status : {0},
     at_commit : StrsUpTo(MetaAlphabet, MaxMetaLen),
     worktree : {<<>>, <<"a", " ", "a">>}, DEBUG : BOOLEAN]
    \cup
    [project_name : {<<"p">>}, commit : {<<"c">>}, status : {128},
     at_commit : {<<>>}, worktree : {<<>>, <<"a", " ", "a">>}, DEBUG : BOOLEAN]

GetRelativeProjectDir ==
    /\ pc = "call" /\ op = "get_relative_project_dir"
    /\ Finish(get_relative_project_dir(input.project_name, input.commit, input))

---------------------------------------------------------------------------
(* get_latest_tagged_version *)
FileAlphabet == {"a", " ", "\t", "\n"}
AwkBlank == {" ", "\t"}

\* The first line of a file: the text before its first newline
FirstLine(content) ==
    IF Positions(content, "\n") = {} THEN content
    ELSE SubSeq(content, 1, Least(Positions(content, "\n")) - 1)

\* The longest prefix of s without a blank
RECURSIVE Word(_)
Word(s) ==
    IF s = <<>> \/ s[1] \in AwkBlank THEN <<>> ELSE <<s[1]>> \o Word(Tail(s))
RECURSIVE SkipBlanks(_)
SkipBlanks(s) ==
    IF s # <<>> /\ s[1] \in AwkBlank THEN SkipBlanks(Tail(s)) ELSE s

\* A mutant: awk prints the whole line, $0.
awk_print_line(content) ==
    IF content = <<>> THEN <<>> ELSE FirstLine(content) \o <<"\n">>

\* What awk '{ print $1 ; exit }' writes for a file: nothing for a file
\* without a line, else the first field of the first line and a newline.
awk_print_first(content) ==
    IF content = <<>> THEN <<>>
    ELSE Word(SkipBlanks(FirstLine(content))) \o <<"\n">>

\* commands.getstatusoutput drops one trailing newline of the output.
getoutput(text) ==
    IF text # <<>> /\ text[Len(text)] = "\n" THEN SubSeq(text, 1, Len(text) - 1)
    ELSE text

find_git_root(status) ==
    IF status > 0
    THEN error_out(<<Msg("%s does not appear to be within a git checkout.", <<>>)>>,
                   <<>>, <<Cmd("git rev-parse --show-cdup", <<>>)>>)
    ELSE Result("return", 0, StrVal(<<"/">>), <<>>, <<>>,
                <<Cmd("git rev-parse --show-cdup", <<>>)>>)

get_latest_tagged_version(package_name, env) ==
    LET g == find_git_root(IF env.in_checkout THEN 0 ELSE 128)
    IN IF g.outcome = "exit" THEN g
       ELSE LET said == debug(Msg("Getting latest package info from: %s", <<package_name>>),
                              env.DEBUG)
            IN IF ~env.exists
               THEN Result("return", 0, NoneVal, said, <<>>, g.cmds)
               ELSE LET r == run_command(Cmd("awk '{ print $1 ; exit }' %s", <<package_name>>),
                                         IF env.readable THEN 0 ELSE 2,
                                         IF env.readable
                                         THEN getoutput(awk_print_first(env.content))
                                         ELSE <<"e">>)
                        cs == g.cmds \o r.cmds
                    IN IF r.outcome = "raise"
                       THEN Result("raise", 0, Nothing, said, r.stderr, cs)
                       ELSE IF Strip(r.retval.str) = <<>>
                       THEN error_out(said \o <<Msg("Error looking up latest tagged version in",
                                                    <<package_name>>)>>, <<>>, cs)
                       ELSE Result("return", 0, r.retval, said, <<>>, cs)

LatestVersionInputs ==
    {i \in [package_name : {<<"p">>}, in_checkout : BOOLEAN, exists : BOOLEAN,
            readable : BOOLEAN, content : StrsUpTo(FileAlphabet, MaxFileLen),
            DEBUG : BOOLEAN] :
        /\ (~i.exists) => (i.content = <<>> /\ ~i.readable)
        /\ (~i.readable) => i.content = <<>>
        /\ (~i.in_checkout) => ~i.exists}

GetLatestTaggedVersion ==
    /\ pc = "call" /\ op = "get_latest_tagged_version"
    /\ Finish(get_latest_tagged_version(input.package_name, input))

---------------------------------------------------------------------------
(* create_tgz *)
Commits == {<<"c", "1">>, <<"c", "2">>}
Prefixes == {<<"p", "1">>, <<"p", "2">>}
RelativeDirs == {<<"/">>, <<"s">>}
ScriptName == <<"tar-fixup-stamp-comment.pl">>

\* The repository: the commit time git records in the commit object
CommitTime(commit) == IF commit = <<"c", "1">> THEN <<"1", "0">> ELSE <<"2", "0">>

\* os.environ['TITO_SRC_BIN_DIR'], <<>> when it is not set
BinDirs == {<<>>, <<"b">>}

get_script_path(scriptname, TITO_SRC_BIN_DIR) ==
    IF TITO_SRC_BIN_DIR # <<>> THEN TITO_SRC_BIN_DIR \o <<"/">> \o scriptname
    ELSE scriptname

get_commit_timestamp(sha1_or_tag) ==
    run_command(Cmd("git rev-list --timestamp --max-count=1 %s | awk '{print $1}'",
                    <<sha1_or_tag>>),
                PipelineStatus(<<0, 0>>), CommitTime(sha1_or_tag))

\* The stages of the archive pipeline, in order
Stages == <<"git archive", "grep", "timestamp script", "gzip", "tee">>
ArchiveCmd ==
    "git archive --format=tar --prefix=%s/ %s:%s | grep -a -v \"^%s/rel-eng/\" | %s %s %s | gzip -n -c - | tee %s"

\* The bytes a tarball holds: those of a truncated stream, or those the
\* tools make of the tree, the prefix, the time stamp and the comment.
Broken == [intact |-> FALSE, tree |-> <<>>, prefix |-> <<>>, stamp |-> <<>>, comment |-> <<>>]
Tarball(commit, relative_git_dir, prefix, timestamp) ==
    [intact |-> TRUE, tree |-> <<commit, relative_git_dir>>, prefix |-> prefix,
     stamp |-> timestamp, comment |-> commit]

NoFile == [exists |-> FALSE, run |-> 0, content |-> Broken]

\* The file tee leaves at dest_tgz. A stage that fails before tee truncates
\* the stream tee writes; a tee that fails could not open the file.
PipelineFile(old, statuses, content, run) ==
    IF statuses[5] = 0
    THEN [exists |-> TRUE, run |-> run,
          content |-> IF \A k \in 1..4 : statuses[k] = 0 THEN content ELSE Broken]
    ELSE old

create_tgz(git_root, prefix, commit, relative_dir, rel_eng_dir, dest_tgz, env) ==
    LET t == get_commit_timestamp(commit)
    IN IF t.outcome = "raise" THEN t
       ELSE LET timestamp == t.retval.str
                timestamp_script == get_script_path(ScriptName, env.TITO_SRC_BIN_DIR)
                relative_git_dir == IF relative_dir = <<"/">> THEN <<>> ELSE relative_dir
                archive_cmd == Cmd(ArchiveCmd,
                                   <<prefix, commit, relative_git_dir, prefix,
                                     timestamp_script, timestamp, commit, dest_tgz>>)
                said == debug(Msg("archive_cmd", archive_cmd.args), env.DEBUG)
                r == run_command(archive_cmd, PipelineStatus(env.statuses), <<>>)
            IN [r EXCEPT !.stdout = said, !.cmds = t.cmds \o r.cmds,
                         !.retval = IF r.outcome = "return" THEN NoneVal ELSE Nothing]

CreateTgzInputs ==
    {i \in [git_root : {<<"/", "r">>}, prefix : Prefixes, commit : Commits,
            relative_dir : RelativeDirs, rel_eng_dir : {<<"e">>}, dest_tgz : {<<"d">>},
            TITO_SRC_BIN_DIR : BinDirs, DEBUG : BOOLEAN,
            statuses : [1..5 -> 0..1]] :
        Cardinality({k \in 1..5 : i.statuses[k] # 0}) <= MaxFailures}

NoInput ==
    [git_root |-> <<>>, prefix |-> <<>>, commit |-> <<>>, relative_dir |-> <<>>,
     rel_eng_dir |-> <<>>, dest_tgz |-> <<>>, TITO_SRC_BIN_DIR |-> <<>>,
     DEBUG |-> FALSE, statuses |-> [k \in 1..5 |-> 0]]

\* What is kept of a run: its (commit, prefix, relative_dir) and the
\* tarball it wrote, if it wrote one.
RunRecord(i, how, file, run) ==
    [ran |-> TRUE, key |-> <<i.commit, i.prefix, i.relative_dir>>,
     returned |-> how = "return",
     wrote |-> file.exists /\ file.run = run, content |-> file.content]
NoRun ==
    [ran |-> FALSE, key |-> <<>>, returned |-> FALSE, wrote |-> FALSE,
     content |-> Broken]

CreateTgz ==
    /\ pc \in {"idle", "done"} /\ op = "create_tgz"
    /\ now < MaxRuns
    /\ \E i \in CreateTgzInputs :
        LET r == create_tgz(i.git_root, i.prefix, i.commit, i.relative_dir,
                            i.rel_eng_dir, i.dest_tgz, i)
            ran == Len(r.cmds) = 2
            relative_git_dir == IF i.relative_dir = <<"/">> THEN <<>> ELSE i.relative_dir
        IN /\ input' = i
           /\ now' = now + 1
           /\ cwd' = i.git_root
           /\ prev' = IF now = 0 THEN NoRun ELSE RunRecord(input, outcome, dest, now)
           /\ dest' = IF ran
                      THEN PipelineFile(dest, i.statuses,
                                        Tarball(i.commit, relative_git_dir, i.prefix,
                                                r.cmds[2].args[6]),
                                        now + 1)
                      ELSE dest
           /\ outcome' = r.outcome
           /\ exit_status' = r.exit_status
           /\ retval' = r.retval
           /\ stdout' = r.stdout
           /\ stderr' = r.stderr
           /\ cmds' = r.cmds
    /\ pc' = "done"
    /\ UNCHANGED op

---------------------------------------------------------------------------
(* The calls of one function on one input *)
Init ==
    /\ pc = "call"
    /\ \/ op = "run_command" /\ input \in RunCommandInputs
       \/ op = "check_tag_exists" /\ input \in CheckTagInputs
       \/ op = "get_project_name" /\ input \in ProjectNameInputs
       \/ op = "get_commit_count" /\ input \in CommitCountInputs
       \/ op = "get_relative_project_dir" /\ input \in RelativeDirInputs
       \/ op = "get_latest_tagged_version" /\ input \in LatestVersionInputs
    /\ outcome = "none"
    /\ exit_status = 0
    /\ retval = Nothing
    /\ stdout = <<>>
    /\ stderr = <<>>
    /\ cmds = <<>>
    /\ dest = NoFile
    /\ prev = NoRun
    /\ now = 0
    /\ cwd = <<>>

Next ==
    \/ RunCommand
    \/ CheckTagExists
    \/ GetProjectName
    \/ GetCommitCount
    \/ GetRelativeProjectDir
    \/ GetLatestTaggedVersion

Spec == Init /\ [][Next]_vars

(* Runs of create_tgz, one after the other, on one destination *)
InitArchive ==
    /\ pc = "idle"
    /\ op = "create_tgz"
    /\ input = NoInput
    /\ outcome = "none"
    /\ exit_status = 0
    /\ retval = Nothing
    /\ stdout = <<>>
    /\ stderr = <<>>
    /\ cmds = <<>>
    /\ dest = NoFile
    /\ prev = NoRun
    /\ now = 0
    /\ cwd = <<>>

NextArchive == CreateTgz

SpecArchive == InitArchive /\ [][NextArchive]_vars

---------------------------------------------------------------------------
(* Properties *)

Printed(m) == \E k \in 1..Len(stdout) : stdout[k] = m
Greatest(S) == CHOOSE i \in S : \A j \in S : j <= i

\* An online check_tag_exists has run on a tag that passed the local grep,
\* in a repository with an origin remote to ask.
C1_Case ==
    /\ pc = "done" /\ op = "check_tag_exists"
    /\ ~input.offline /\ input.origin
    /\ GitTagGrep(input.tag, input.local_tags) = 0

\* C1: online, for a tag that passes the local-presence check,
\* check_tag_exists returns normally if and only if the SHA1 the origin
\* lists for the tag is non-empty and equal to the local one; an empty remote
\* SHA1 exits with status 1 saying the tag does not exist in the remote
\* repo; a different one exits with status 1 with a message naming the tag,
\* the local SHA1 and the remote SHA1.
C1_RemoteSha1Decides ==
    C1_Case =>
        /\ (outcome = "return") <=>
               (input.remote_sha # <<>> /\ input.remote_sha = input.local_sha)
        /\ (input.remote_sha = <<>>) =>
               /\ outcome = "exit" /\ exit_status = 1
               /\ Printed(Msg("Tag does not exist in remote git repo", <<input.tag>>))
        /\ (input.remote_sha # <<>> /\ input.remote_sha # input.local_sha) =>
               /\ outcome = "exit" /\ exit_status = 1
               /\ Printed(Msg("Tag %s references %s locally but %s upstream",
                              <<input.tag, input.local_sha, input.remote_sha>>))

C1_Witness ==
    /\ C1_Case
    /\ input.tag \in input.local_tags
    /\ input.remote_sha # <<>> /\ input.remote_sha # input.local_sha
    /\ outcome = "exit"

\* C2: offline or online, check_tag_exists exits with status 1 and "Tag does
\* not exist locally" whenever the tag is not an element of the local tag
\* list; it never returns normally for a tag that is only a substring of
\* another local tag's name.
C2_AbsentTagFails ==
    (pc = "done" /\ op = "check_tag_exists" /\ input.tag \notin input.local_tags) =>
        /\ outcome = "exit" /\ exit_status = 1
        /\ Printed(Msg("Tag does not exist locally", <<input.tag>>))

\* C3: run_command with a non-zero status writes the command, the status and
\* the captured output to the error stream and raises, handing no output
\* back; with status zero it returns the captured output and raises nothing.
C3_StatusDecides ==
    (pc = "done" /\ op = "run_command") =>
        IF input.status # 0
        THEN /\ outcome = "raise" /\ retval = Nothing
             /\ \E k \in 1..Len(stderr) : stderr[k].label = "Error running command"
                                          /\ stderr[k].command = input.command
             /\ \E k \in 1..Len(stderr) : stderr[k].label = "Status code"
                                          /\ stderr[k].status = input.status
             /\ \E k \in 1..Len(stderr) : stderr[k].label = "Command output"
                                          /\ stderr[k].output = input.output
        ELSE /\ outcome = "return" /\ retval = StrVal(input.output)
             /\ stderr = <<>>

C3_Witness ==
    /\ pc = "done" /\ op = "run_command"
    /\ input.status = 1 /\ input.output # <<>> /\ outcome = "raise"

\* The tarball this run of create_tgz wrote
WroteTarball == dest.exists /\ dest.run = now

\* C4: create_tgz is all-or-nothing: when a stage of the archive pipeline
\* exits with a non-zero status, create_tgz raises and no destination
\* tarball is produced; a tarball is there after the call only when every
\* stage succeeded.
C4_AllOrNothing ==
    (pc = "done" /\ op = "create_tgz") =>
        /\ (\E k \in 1..5 : input.statuses[k] # 0) =>
               (outcome = "raise" /\ ~WroteTarball)
        /\ WroteTarball => \A k \in 1..5 : input.statuses[k] = 0

\* The "-digit" boundaries of a tag
Boundaries(tag) ==
    {k \in 1..(Len(tag) - 1) :
        tag[k] = "-" /\ tag[k + 1] \in {"0", "1", "2", "3", "4", "5", "6", "7", "8", "9"}}

\* C5: get_project_name(tag) returns the text before the first "-" that is
\* immediately followed by a digit, for every tag that has one, and exits
\* with status 1, returning no name, for every tag that has none.
C5_NameBeforeFirstDashDigit ==
    (pc = "done" /\ op = "get_project_name" /\ input.tag_given) =>
        IF Boundaries(input.tag) # {}
        THEN /\ outcome = "return"
             /\ retval = StrVal(SubSeq(input.tag, 1, Least(Boundaries(input.tag)) - 1))
        ELSE /\ outcome = "exit" /\ exit_status = 1 /\ retval = Nothing

C5_Witness ==
    /\ pc = "done" /\ op = "get_project_name" /\ input.tag_given
    /\ input.tag = <<"a", "-", "1", "-", "1">>
    /\ retval = StrVal(<<"a">>)

\* The second-to-last "-"-separated field of a text with a "-"
SecondToLast(s) ==
    LET D == Positions(s, "-")
        d2 == Greatest(D)
        d1 == IF D \ {d2} = {} THEN 0 ELSE Greatest(D \ {d2})
    IN SubSeq(s, d1 + 1, d2 - 1)

C6_Case == pc = "done" /\ op = "get_commit_count" /\ input.status = 0

\* C6 as claimed: get_commit_count returns 0 when the describe output equals
\* the tag, and otherwise returns the second-to-last "-"-separated field of
\* the describe output, also for an output with fewer than two fields.
C6_AlwaysReturnsField ==
    C6_Case =>
        IF input.output = input.tag
        THEN outcome = "return" /\ retval = IntVal(0)
        ELSE /\ outcome = "return"
             /\ Positions(input.output, "-") # {} =>
                    retval = StrVal(SecondToLast(input.output))

\* C6 as amended: get_commit_count returns 0 when the describe output equals
\* the tag; otherwise it returns the second-to-last "-"-separated field when
\* the output has at least two fields, and fails with an index fault,
\* returning nothing, when the output has no "-".
C6_FieldOrIndexFault ==
    C6_Case =>
        IF input.output = input.tag
        THEN outcome = "return" /\ retval = IntVal(0)
        ELSE IF Positions(input.output, "-") # {}
        THEN outcome = "return" /\ retval = StrVal(SecondToLast(input.output))
        ELSE outcome = "index" /\ retval = Nothing

C6_Witness ==
    /\ C6_Case
    /\ input.output = input.tag \o <<"-", "1", "-", "a">>
    /\ retval = StrVal(<<"1">>)

\* The whitespace-separated tokens of a line
RECURSIVE WsTokens(_)
WsTokens(s) ==
    LET t == SkipBlanks(s)
    IN IF t = <<>> THEN <<>>
       ELSE <<Word(t)>> \o WsTokens(Drop(t, Len(Word(t)) + 1))

\* C7: get_relative_project_dir returns the second whitespace-separated
\* token of the metadata stored at the commit, whatever whitespace (one
\* space, several spaces, a tab) separates the tokens and whatever the
\* working tree holds.
C7_SecondToken ==
    (/\ pc = "done" /\ op = "get_relative_project_dir" /\ input.status = 0
     /\ Len(WsTokens(input.at_commit)) >= 2) =>
        /\ outcome = "return"
        /\ retval = StrVal(WsTokens(input.at_commit)[2])

\* t is the first whitespace-separated token of line (<<>> for a line
\* without one)
IsFirstToken(line, t) ==
    \E k \in 0..Len(line) :
        /\ \A j \in 1..k : line[j] \in {" ", "\t"}
        /\ k + Len(t) <= Len(line)
        /\ t = SubSeq(line, k + 1, k + Len(t))
        /\ \A j \in 1..Len(t) : t[j] \notin {" ", "\t"}
        /\ (k + Len(t) = Len(line) \/ line[k + Len(t) + 1] \in {" ", "\t"})
        /\ (t = <<>> => k = Len(line))

C8_Case ==
    /\ pc = "done" /\ op = "get_latest_tagged_version"
    /\ input.in_checkout /\ (input.exists => input.readable)

\* C8: inside a git checkout, get_latest_tagged_version returns None, without
\* a fault or an error exit, when the metadata file does not exist; it
\* exits with status 1 when the file exists and its first token is empty;
\* otherwise it returns the first whitespace-separated token of the file's
\* first line.
C8_FirstTokenOrNone ==
    C8_Case =>
        IF ~input.exists
        THEN outcome = "return" /\ retval = NoneVal /\ exit_status = 0
        ELSE IF IsFirstToken(FirstLine(input.content), <<>>)
        THEN outcome = "exit" /\ exit_status = 1
        ELSE /\ outcome = "return" /\ retval.kind = "str"
             /\ retval.str # <<>>
             /\ IsFirstToken(FirstLine(input.content), retval.str)

C8_Witness ==
    /\ C8_Case /\ input.exists
    /\ input.content = <<"\t", "a", " ", "a">>
    /\ retval = StrVal(<<"a">>)

\* C9: two runs of create_tgz with the same (commit, prefix, relative_dir)
\* leave byte-identical destination files.
C9_Reproducible ==
    (/\ pc = "done" /\ op = "create_tgz"
     /\ prev.ran /\ prev.returned /\ prev.wrote
     /\ outcome = "return" /\ WroteTarball
     /\ prev.key = <<input.commit, input.prefix, input.relative_dir>>) =>
        dest.content = prev.content

RemoteCmd(c) == c.template \in {GitConfigCmd, LsRemoteCmd}

\* C10: an offline check_tag_exists never reads the origin URL, never
\* queries the remote and never fails with a remote-missing or a mismatch
\* error: it runs the local tag-list check and the local SHA1 resolution and
\* returns. Online, the URL read and the remote query come only after the
\* local-presence check has passed.
C10_OfflineStaysLocal ==
    (pc = "done" /\ op = "check_tag_exists") =>
        /\ input.offline =>
            /\ \A k \in 1..Len(cmds) : ~RemoteCmd(cmds[k])
            /\ \A k \in 1..Len(stdout) :
                   stdout[k].kind \notin {"Tag does not exist in remote git repo",
                                          "Tag %s references %s locally but %s upstream"}
            /\ GitTagGrep(input.tag, input.local_tags) = 0 =>
                   /\ outcome = "return"
                   /\ cmds = <<Cmd(GrepCmd, <<input.tag>>),
                               Cmd(LsRemoteLocalCmd, <<input.tag>>)>>
        /\ \A k \in 1..Len(cmds) :
               RemoteCmd(cmds[k]) =>
                   /\ ~input.offline
                   /\ k > 1 /\ cmds[1] = Cmd(GrepCmd, <<input.tag>>)
                   /\ GitTagGrep(input.tag, input.local_tags) = 0

C10_Witness ==
    /\ pc = "done" /\ op = "check_tag_exists" /\ input.offline
    /\ input.origin /\ input.tag \in input.local_tags
    /\ input.remote_sha # input.local_sha
    /\ outcome = "return" /\ Len(cmds) = 2

====
